---- MODULE Spec2Model ----
(***************************************************************************)
(* Model of api/src/poem_backend/log.rs: the middleware_log interceptor.   *)
(* Each request runs middleware_log once: it takes a start timestamp,      *)
(* builds an HttpRequestLog from the request, awaits the wrapped endpoint, *)
(* derives the status code and the elapsed time, logs (error severity      *)
(* behind the one-second sampler, debug severity otherwise), observes the  *)
(* latency in the RESPONSE_STATUS histogram and returns the endpoint's     *)
(* result.                                                                 *)
(***************************************************************************)
EXTENDS Integers, Sequences, FiniteSets, TLC

(* ---------------------------- bounds ---------------------------------- *)
\* Number of requests served in a behaviour.
MaxRequests == 3
\* Number of requests that may be inside middleware_log at the same time.
MaxInFlight == 2
\* Clock resolution: ticks of the model clock per second.
TicksPerSec == 2
\* Last tick of the model clock.
MaxTime == 2

(* ------------------------ program constants --------------------------- *)
\* SampleRate::Duration(Duration::from_secs(1))
SampleRateSecs == 1
\* StatusCode::INTERNAL_SERVER_ERROR.as_u16()
INTERNAL_SERVER_ERROR == 500
\* if status_code >= 500
ErrorThreshold == 500
\* status: 0 in the HttpRequestLog literal
UnsetStatus == 0
\* elapsed: Duration::from_secs(0) in the HttpRequestLog literal
ZeroElapsed == 0

Slots == 1..MaxInFlight

(* ----------------------------- values --------------------------------- *)
None == [some |-> FALSE]
Some(v) == [some |-> TRUE, val |-> v]

\* Header values are byte strings; to_str() accepts visible ASCII and tab.
IsVisibleAscii(b) == (b >= 32 /\ b < 127) \/ b = 9

RECURSIVE AllVisible(_)
AllVisible(bytes) ==
    IF bytes = <<>> THEN TRUE
    ELSE IsVisibleAscii(Head(bytes)) /\ AllVisible(Tail(bytes))

\* ToStrOk with a lossy conversion that accepts any bytes.
ToStrLossy(bytes) == Some(bytes)

\* HeaderValue::to_str().ok()
ToStrOk(bytes) == IF AllVisible(bytes) THEN Some(bytes) ELSE None

\* request.headers().get(name).and_then(|v| v.to_str().ok().map(|v| v.to_string()))
HeaderText(headers, name) ==
    IF name \in DOMAIN headers THEN ToStrOk(headers[name]) ELSE None

\* The requests the server receives.
PlainRequest ==
    [remote_addr |-> Some("10.0.0.1:4000"),
     method      |-> "GET",
     uri         |-> [path |-> "/v1/accounts", query |-> "start=0"],
     headers     |-> [referer    |-> <<104, 116>>,
                      user_agent |-> <<99, 117, 114, 108>>,
                      forwarded  |-> <<102, 111, 114>>]]

BareRequest ==
    [remote_addr |-> None,
     method      |-> "POST",
     uri         |-> [path |-> "/v1/transactions", query |-> ""],
     headers     |-> [user_agent |-> <<200, 255>>]]

Requests == {PlainRequest, BareRequest}

\* What the wrapped endpoint can produce.
Response(status, body) ==
    [status |-> status, headers |-> <<"content-type">>, body |-> body]

Responses ==
    {Response(404, "not found"), Response(503, "unavailable")}

Errors == {[error |-> "NotFoundError", status |-> 404],
           [error |-> "BadGateway", status |-> 502]}

Ok(v) == [kind |-> "Ok", value |-> v]
Err(e) == [kind |-> "Err", value |-> e]

HandlerResults == {Ok(resp) : resp \in Responses} \cup {Err(e) : e \in Errors}

\* The names of the three headers the record copies.
HeaderNames == {"referer", "user_agent", "forwarded"}

\* A header of a request: missing, text, or bytes that are not text.
MissingHeader == <<-1>>
TextHeader == <<104, 116, 9>>
BytesHeader == <<104, 200, 255>>
HeaderChoices == {MissingHeader, TextHeader, BytesHeader}

\* The request whose three headers are as `choice` says.
RequestWith(choice) ==
    [remote_addr |-> Some("10.0.0.1:4000"),
     method      |-> "GET",
     uri         |-> [path |-> "/v1/accounts", query |-> "start=0"],
     headers     |-> [n \in {h \in HeaderNames : choice[h] # MissingHeader} |-> choice[n]]]

\* Every combination of missing, text and non-text headers.
HeaderRequests == {RequestWith(choice) : choice \in [HeaderNames -> HeaderChoices]}

\* Responses on both sides of the severity threshold.
ThresholdResponses ==
    {Response(200, "ok"), Response(499, "closed"), Response(500, "internal"),
     Response(501, "not implemented"), Response(503, "unavailable")}

ThresholdResults == {Ok(resp) : resp \in ThresholdResponses} \cup {Err(e) : e \in Errors}

\* The endpoint's future of a call that never resolves.
NeverReturns == [kind |-> "pending"]

\* A local that has not been assigned yet.
NoValue == [kind |-> "unset"]
NoRequest == [method |-> "unset"]
NoLog == [method |-> "unset"]
NoTime == -1

\* SampleState before any error-severity emission has passed.
NoPass == -1


(* ------------------------------ state ---------------------------------- *)
VARIABLES
    now,          \* the wall clock, in ticks
    served,       \* number of requests handed to middleware_log so far
    call,         \* call[r]: serial number of the call in slot r (0: none yet)
    pc,           \* pc[r]: where the call in slot r is inside middleware_log
    request,      \* request[r]: the request handed to middleware_log
    start,        \* start[r]: the local `start`
    log,          \* log[r]: the local `log` (HttpRequestLog)
    result,       \* result[r]: what next.call(request).await produced
    out,          \* out[r]: the local `out`
    status_code,  \* status_code[r]: the local `status_code`
    elapsed,      \* elapsed[r]: the local `elapsed`
    returned,     \* returned[r]: what the call returned to its caller
    lastPass,     \* the sampler's SampleState: time of the last passed emission
    logs,         \* logs[r]: records the log sink received from the call in slot r
    metrics,      \* metrics[r]: RESPONSE_STATUS observations made by the call in slot r
    histogram,    \* RESPONSE_STATUS: number of observations under each label
    trace,        \* the classification steps of all calls so far, in order
    invokedAt,    \* invokedAt[r]: when next.call(request) was invoked (while it runs)
    workload      \* the traffic: request shapes, endpoint results, number of requests

vars == <<now, served, call, pc, request, start, log, result, out, status_code, elapsed,
          returned, lastPass, logs, metrics, histogram, trace, invokedAt, workload>>

(* --------------------------- pure helpers ------------------------------ *)
\* A sampling interval of one minute in place of one second.
IntervalMinute == 60 * SampleRateSecs * TicksPerSec

\* Duration::from_secs(1), in ticks of the model clock.
Interval == SampleRateSecs * TicksPerSec

Digit(d) == CASE d = 0 -> "0" [] d = 1 -> "1" [] d = 2 -> "2" [] d = 3 -> "3"
              [] d = 4 -> "4" [] d = 5 -> "5" [] d = 6 -> "6" [] d = 7 -> "7"
              [] d = 8 -> "8" [] d = 9 -> "9"

\* u16::to_string(): the decimal digits, most significant first.
RECURSIVE U16ToString(_)
U16ToString(n) ==
    IF n < 10 THEN <<Digit(n)>>
    ELSE Append(U16ToString(n \div 10), Digit(n % 10))

\* Duration::as_secs_f64(): the duration as a fraction of a second.
AsSecsF64(d) == [ticks |-> d, per_sec |-> TicksPerSec]

\* start.elapsed()
Elapsed(s, t) == t - s

\* Response::into_response(): a Response converts into itself.
IntoResponse(resp) ==
    [status |-> resp.status, headers |-> resp.headers, body |-> resp.body]

\* Lines 24-42: the HttpRequestLog built from the request.
HttpRequestLog(req) ==
    [remote_addr |-> req.remote_addr,
     method      |-> req.method,
     path        |-> req.uri.path,
     status      |-> UnsetStatus,
     referer     |-> HeaderText(req.headers, "referer"),
     user_agent  |-> HeaderText(req.headers, "user_agent"),
     elapsed     |-> ZeroElapsed,
     forwarded   |-> HeaderText(req.headers, "forwarded")]

\* MatchResult with the response rebuilt from its status code alone.
MatchResultRebuilt(res) ==
    IF res.kind = "Ok"
    THEN [out |-> Ok(Response(res.value.status, "")), status_code |-> res.value.status]
    ELSE [out |-> Err(res.value), status_code |-> INTERNAL_SERVER_ERROR]

\* MatchResult with the failure's own status code in place of the fallback.
MatchResultErrorStatus(res) ==
    IF res.kind = "Ok"
    THEN [out |-> Ok(IntoResponse(res.value)), status_code |-> res.value.status]
    ELSE [out |-> Err(res.value), status_code |-> res.value.status]

\* Lines 46-55: the (out, status_code) pair derived from the endpoint's result.
MatchResult(res) ==
    IF res.kind = "Ok"
    THEN LET response == IntoResponse(res.value)
         IN  [out |-> Ok(response), status_code |-> response.status]
    ELSE [out |-> Err(res.value), status_code |-> INTERNAL_SERVER_ERROR]

\* Error severity for client errors as well as server errors.
IsServerErrorFrom400(code) == code >= 400

\* IsServerError with the comparison off by one.
IsServerErrorStrict(code) == code > ErrorThreshold

\* Line 62: the severity test.
IsServerError(code) == code >= ErrorThreshold

\* Sampling::sample() for SampleRate::Duration: the emission passes when no
\* emission has passed yet or a full interval has gone by since the last pass;
\* only a pass moves the timestamp.  The check and the update are one atomic step.
SamplePasses(last, t) == last = NoPass \/ t - last >= Interval

SampleNext(last, t) == IF SamplePasses(last, t) THEN t ELSE last

\* Emission without the else: the debug record follows in every case.
EmissionNoElse(code, rec, last, t) ==
    (IF IsServerError(code) /\ SamplePasses(last, t)
     THEN <<[severity |-> "error", record |-> rec]>>
     ELSE <<>>)
    \o <<[severity |-> "debug", record |-> rec]>>

\* Emission with the debug record behind the sampler as well.
EmissionAllSampled(code, rec, last, t) ==
    IF SamplePasses(last, t)
    THEN <<[severity |-> IF IsServerError(code) THEN "error" ELSE "debug",
            record |-> rec]>>
    ELSE <<>>

\* Emission with error!(log) outside sample!.
EmissionUnsampled(code, rec, last, t) ==
    IF IsServerError(code)
    THEN <<[severity |-> "error", record |-> rec]>>
    ELSE <<[severity |-> "debug", record |-> rec]>>

\* Lines 62-66: the records handed to the log sink, given the sampler's state.
Emission(code, rec, last, t) ==
    IF IsServerError(code)
    THEN IF SamplePasses(last, t)
         THEN <<[severity |-> "error", record |-> rec]>>
         ELSE <<>>
    ELSE <<[severity |-> "debug", record |-> rec]>>

\* Sampler consulted ahead of the severity test, for every status.
SamplerAfterEveryStatus(code, last, t) == SampleNext(last, t)

\* Lines 62-66: the sampler's state after the log decision.
SamplerAfter(code, last, t) ==
    IF IsServerError(code) THEN SampleNext(last, t) ELSE last

\* Observation made in the debug branch only.
ObservationInElseBranch(code, el) ==
    IF IsServerError(code) THEN <<>>
    ELSE <<[label |-> U16ToString(code), value |-> AsSecsF64(el)]>>

\* Observation of elapsed.as_millis() in place of as_secs_f64().
ObservationMillis(code, el) ==
    <<[label |-> U16ToString(code), value |-> [ticks |-> el * 1000, per_sec |-> TicksPerSec]]>>

\* Lines 68-70: the observations handed to RESPONSE_STATUS.
Observation(code, el) == <<[label |-> U16ToString(code), value |-> AsSecsF64(el)]>>

\* The label dimension of RESPONSE_STATUS.
Labels == {U16ToString(c) : c \in {UnsetStatus, 200, 404, 499, 500, 501, 502, 503}}

RECURSIVE Observed(_, _)
Observed(h, obs) ==
    IF obs = <<>> THEN h
    ELSE Observed([h EXCEPT ![Head(obs).label] = @ + 1], Tail(obs))

Severities(recs) == [i \in DOMAIN recs |-> recs[i].severity]

Free(r) == pc[r] \in {"idle", "done"}

(* ------------------------------- Init ---------------------------------- *)
\* The state after construction, for the traffic w.
InitWith(w) ==
    /\ workload = w
    /\ now = 0
    /\ served = 0
    /\ call = [r \in Slots |-> 0]
    /\ pc = [r \in Slots |-> "idle"]
    /\ request = [r \in Slots |-> NoRequest]
    /\ start = [r \in Slots |-> NoTime]
    /\ log = [r \in Slots |-> NoLog]
    /\ result = [r \in Slots |-> NoValue]
    /\ out = [r \in Slots |-> NoValue]
    /\ status_code = [r \in Slots |-> UnsetStatus]
    /\ elapsed = [r \in Slots |-> ZeroElapsed]
    /\ returned = [r \in Slots |-> NoValue]
    /\ lastPass = NoPass
    /\ logs = [r \in Slots |-> <<>>]
    /\ metrics = [r \in Slots |-> <<>>]
    /\ histogram = [l \in Labels |-> 0]
    /\ trace = <<>>
    /\ invokedAt = [r \in Slots |-> NoTime]

\* Mixed traffic: two request shapes, routine and failing outcomes.
Init == InitWith([requests |-> Requests, results |-> HandlerResults,
                  budget |-> MaxRequests])

\* One request with any combination of missing, text and non-text headers.
InitHeaders == InitWith([requests |-> HeaderRequests, results |-> HandlerResults,
                         budget |-> 1])

\* Two requests whose outcomes lie on both sides of the severity threshold.
InitThreshold == InitWith([requests |-> {PlainRequest}, results |-> ThresholdResults,
                           budget |-> 2])

(* ------------------------------ actions -------------------------------- *)
\* The clock advances.
Tick ==
    /\ now < MaxTime
    /\ now' = now + 1
    /\ UNCHANGED <<served, call, pc, request, start, log, result, out, status_code,
                   elapsed, returned, lastPass, logs, metrics, histogram, trace,
                   invokedAt, workload>>

\* Lines 21-22: the server calls middleware_log with a request (in the first
\* free slot); `start` is taken.
Enter(r) ==
    /\ Free(r)
    /\ \A q \in Slots : q < r => ~Free(q)
    /\ served < workload.budget
    /\ served' = served + 1
    /\ call' = [call EXCEPT ![r] = served + 1]
    /\ \E req \in workload.requests : request' = [request EXCEPT ![r] = req]
    /\ start' = [start EXCEPT ![r] = now]
    /\ result' = [result EXCEPT ![r] = NoValue]
    /\ returned' = [returned EXCEPT ![r] = NoValue]
    /\ logs' = [logs EXCEPT ![r] = <<>>]
    /\ metrics' = [metrics EXCEPT ![r] = <<>>]
    /\ pc' = [pc EXCEPT ![r] = "extract"]
    /\ UNCHANGED <<now, log, out, status_code, elapsed, lastPass, histogram, trace,
                   invokedAt, workload>>

\* Lines 24-44: the record is built and the wrapped endpoint is called.
Extract(r) ==
    /\ pc[r] = "extract"
    /\ log' = [log EXCEPT ![r] = HttpRequestLog(request[r])]
    /\ invokedAt' = [invokedAt EXCEPT ![r] = now]
    /\ pc' = [pc EXCEPT ![r] = "handler"]
    /\ UNCHANGED <<now, served, call, request, start, result, out, status_code, elapsed,
                   returned, lastPass, logs, metrics, histogram, trace, workload>>

\* Line 44: the endpoint's future will never resolve; the call stays suspended.
Hang(r) ==
    /\ pc[r] = "handler"
    /\ result[r] = NoValue
    /\ result' = [result EXCEPT ![r] = NeverReturns]
    /\ UNCHANGED <<now, served, call, pc, request, start, log, out, status_code,
                   elapsed, returned, lastPass, logs, metrics, histogram, trace,
                   invokedAt, workload>>

\* HandlerReturns with a timeout of the interceptor's own: a suspended call
\* is resumed as well.
HandlerReturnsTimeout(r) ==
    /\ pc[r] = "handler"
    /\ result[r] \in {NoValue, NeverReturns}
    /\ \E res \in workload.results :
         LET m == MatchResult(res)
             el == Elapsed(start[r], now)
         IN  /\ result' = [result EXCEPT ![r] = res]
             /\ out' = [out EXCEPT ![r] = m.out]
             /\ status_code' = [status_code EXCEPT ![r] = m.status_code]
             /\ elapsed' = [elapsed EXCEPT ![r] = el]
             /\ log' = [log EXCEPT ![r] = [@ EXCEPT !.status = m.status_code,
                                                     !.elapsed = el]]
    /\ pc' = [pc EXCEPT ![r] = "classify"]
    /\ invokedAt' = [invokedAt EXCEPT ![r] = NoTime]
    /\ UNCHANGED <<now, served, call, request, start, returned, lastPass, logs,
                   metrics, histogram, trace, workload>>

\* HandlerReturns without lines 59-60: the record keeps its placeholders.
HandlerReturnsStaleLog(r) ==
    /\ pc[r] = "handler"
    /\ result[r] = NoValue
    /\ \E res \in workload.results :
         LET m == MatchResult(res)
         IN  /\ result' = [result EXCEPT ![r] = res]
             /\ out' = [out EXCEPT ![r] = m.out]
             /\ status_code' = [status_code EXCEPT ![r] = m.status_code]
             /\ elapsed' = [elapsed EXCEPT ![r] = Elapsed(start[r], now)]
    /\ pc' = [pc EXCEPT ![r] = "classify"]
    /\ invokedAt' = [invokedAt EXCEPT ![r] = NoTime]
    /\ UNCHANGED <<now, served, call, request, start, log, returned, lastPass, logs,
                   metrics, histogram, trace, workload>>

\* HandlerReturns with `next.call(request).await?`: a failure goes straight
\* back to the caller.
HandlerReturnsTry(r) ==
    /\ pc[r] = "handler"
    /\ result[r] = NoValue
    /\ \E res \in workload.results :
         LET m == MatchResult(res)
             el == Elapsed(start[r], now)
         IN  /\ result' = [result EXCEPT ![r] = res]
             /\ IF res.kind = "Err"
                THEN /\ returned' = [returned EXCEPT ![r] = res]
                     /\ pc' = [pc EXCEPT ![r] = "done"]
                     /\ UNCHANGED <<out, status_code, elapsed, log>>
                ELSE /\ out' = [out EXCEPT ![r] = m.out]
                     /\ status_code' = [status_code EXCEPT ![r] = m.status_code]
                     /\ elapsed' = [elapsed EXCEPT ![r] = el]
                     /\ log' = [log EXCEPT ![r] = [@ EXCEPT !.status = m.status_code,
                                                             !.elapsed = el]]
                     /\ pc' = [pc EXCEPT ![r] = "classify"]
                     /\ UNCHANGED returned
    /\ invokedAt' = [invokedAt EXCEPT ![r] = NoTime]
    /\ UNCHANGED <<now, served, call, request, start, lastPass, logs, metrics,
                   histogram, trace, workload>>

\* Lines 44-60: the endpoint's future resolves; status and elapsed are set.
HandlerReturns(r) ==
    /\ pc[r] = "handler"
    /\ result[r] = NoValue
    /\ \E res \in workload.results :
         LET m == MatchResult(res)
             el == Elapsed(start[r], now)
         IN  /\ result' = [result EXCEPT ![r] = res]
             /\ out' = [out EXCEPT ![r] = m.out]
             /\ status_code' = [status_code EXCEPT ![r] = m.status_code]
             /\ elapsed' = [elapsed EXCEPT ![r] = el]
             /\ log' = [log EXCEPT ![r] = [@ EXCEPT !.status = m.status_code,
                                                     !.elapsed = el]]
    /\ invokedAt' = [invokedAt EXCEPT ![r] = NoTime]
    /\ pc' = [pc EXCEPT ![r] = "classify"]
    /\ UNCHANGED <<now, served, call, request, start, returned, lastPass, logs, metrics,
                   histogram, trace, workload>>

\* Classify with a Sampling that is a local of the call instead of a static.
ClassifyLocalSampling(r) ==
    /\ pc[r] = "classify"
    /\ LET emitted == Emission(status_code[r], log[r], NoPass, now)
       IN  /\ logs' = [logs EXCEPT ![r] = @ \o emitted]
           /\ trace' = Append(trace, [call |-> call[r], at |-> now,
                                      status |-> status_code[r],
                                      emitted |-> Severities(emitted)])
    /\ UNCHANGED lastPass
    /\ pc' = [pc EXCEPT ![r] = "observe"]
    /\ UNCHANGED <<now, served, call, request, start, log, result, out, status_code,
                   elapsed, returned, metrics, histogram, invokedAt, workload>>

\* Classify under a lock that a call holds from invocation to return of its
\* handler.
ClassifyUnderLock(r) ==
    /\ pc[r] = "classify"
    /\ \A q \in Slots \ {r} : pc[q] # "handler"
    /\ LET emitted == Emission(status_code[r], log[r], lastPass, now)
       IN  /\ logs' = [logs EXCEPT ![r] = @ \o emitted]
           /\ trace' = Append(trace, [call |-> call[r], at |-> now,
                                      status |-> status_code[r],
                                      emitted |-> Severities(emitted)])
    /\ lastPass' = SamplerAfter(status_code[r], lastPass, now)
    /\ pc' = [pc EXCEPT ![r] = "observe"]
    /\ UNCHANGED <<now, served, call, request, start, log, result, out, status_code,
                   elapsed, returned, metrics, histogram, invokedAt, workload>>

\* Lines 62-66: error severity behind the sampler, debug severity otherwise.
Classify(r) ==
    /\ pc[r] = "classify"
    /\ LET emitted == Emission(status_code[r], log[r], lastPass, now)
       IN  /\ logs' = [logs EXCEPT ![r] = @ \o emitted]
           /\ trace' = Append(trace, [call |-> call[r], at |-> now,
                                      status |-> status_code[r],
                                      emitted |-> Severities(emitted)])
    /\ lastPass' = SamplerAfter(status_code[r], lastPass, now)
    /\ pc' = [pc EXCEPT ![r] = "observe"]
    /\ UNCHANGED <<now, served, call, request, start, log, result, out, status_code,
                   elapsed, returned, metrics, histogram, invokedAt, workload>>

\* Lines 68-70: the latency is observed under the status label.
Observe(r) ==
    /\ pc[r] = "observe"
    /\ LET obs == Observation(status_code[r], elapsed[r])
       IN  /\ metrics' = [metrics EXCEPT ![r] = @ \o obs]
           /\ histogram' = Observed(histogram, obs)
    /\ pc' = [pc EXCEPT ![r] = "return"]
    /\ UNCHANGED <<now, served, call, request, start, log, result, out, status_code,
                   elapsed, returned, lastPass, logs, trace, invokedAt, workload>>

\* Line 72: `out` goes back to the caller and the locals are dropped.
Return(r) ==
    /\ pc[r] = "return"
    /\ returned' = [returned EXCEPT ![r] = out[r]]
    /\ request' = [request EXCEPT ![r] = NoRequest]
    /\ start' = [start EXCEPT ![r] = NoTime]
    /\ log' = [log EXCEPT ![r] = NoLog]
    /\ out' = [out EXCEPT ![r] = NoValue]
    /\ status_code' = [status_code EXCEPT ![r] = UnsetStatus]
    /\ elapsed' = [elapsed EXCEPT ![r] = ZeroElapsed]
    /\ pc' = [pc EXCEPT ![r] = "done"]
    /\ UNCHANGED <<now, served, call, result, lastPass, logs, metrics, histogram, trace,
                   invokedAt, workload>>

Next ==
    \/ Tick
    \/ \E r \in Slots : Enter(r)
    \/ \E r \in Slots : Extract(r)
    \/ \E r \in Slots : Hang(r)
    \/ \E r \in Slots : HandlerReturns(r)
    \/ \E r \in Slots : Classify(r)
    \/ \E r \in Slots : Observe(r)
    \/ \E r \in Slots : Return(r)

Spec == Init /\ [][Next]_vars

SpecHeaders == InitHeaders /\ [][Next]_vars

SpecThreshold == InitThreshold /\ [][Next]_vars

(* ------------------------ vocabulary of the claims ---------------------- *)
\* One second (the documented sampling interval), in ticks of the model clock.
OneSecond == TicksPerSec

\* The final status of a request: the response's status, 500 for a failure.
FinalStatus(res) == IF res.kind = "Ok" THEN res.value.status ELSE 500

HandlerDone(r) == pc[r] \in {"classify", "observe", "return", "done"}
Classified(r) == pc[r] \in {"observe", "return", "done"}
Observing(r) == pc[r] \in {"return", "done"}

RECURSIVE SumOver(_, _)
SumOver(h, ls) ==
    IF ls = {} THEN 0
    ELSE LET l == CHOOSE x \in ls : TRUE IN h[l] + SumOver(h, ls \ {l})

\* The calls that have not reached line 68 yet.
BeforeObserve == {r \in Slots : pc[r] \in {"extract", "handler", "classify", "observe"}}

DigitValue(c) == CASE c = "0" -> 0 [] c = "1" -> 1 [] c = "2" -> 2 [] c = "3" -> 3
                   [] c = "4" -> 4 [] c = "5" -> 5 [] c = "6" -> 6 [] c = "7" -> 7
                   [] c = "8" -> 8 [] c = "9" -> 9

RECURSIVE ParseDecimal(_)
ParseDecimal(ds) ==
    IF Len(ds) = 0 THEN 0
    ELSE 10 * ParseDecimal(SubSeq(ds, 1, Len(ds) - 1)) + DigitValue(ds[Len(ds)])

Passed(i) == trace[i].emitted = <<"error">>
Suppressed(i) == trace[i].emitted = <<>>

(* ------------------------------- claims --------------------------------- *)
\* C1: every call whose handler returned makes exactly one RESPONSE_STATUS
\* observation before it returns to its caller, never zero and never two,
\* whatever the severity and whatever the sampler decided; so the histogram
\* holds one observation per call that has passed line 70.
C1_ExactlyOneObservation ==
    /\ \A r \in Slots :
         /\ Len(metrics[r]) <= 1
         /\ Observing(r) => Len(metrics[r]) = 1
         /\ HandlerDone(r) /\ ~Observing(r) => Len(metrics[r]) = 0
    /\ SumOver(histogram, Labels) = served - Cardinality(BeforeObserve)

\* A call with a 5xx status whose log the sampler suppressed has returned with
\* its single observation made.
C1_Witness ==
    \E r \in Slots :
        /\ pc[r] = "done"
        /\ FinalStatus(result[r]) >= 500
        /\ logs[r] = <<>>
        /\ Len(metrics[r]) = 1

\* C2: on the success path the call returns Ok with the handler's own
\* response: same status code, headers and body.
C2_ResponseUnchanged ==
    \A r \in Slots :
        pc[r] = "done" /\ result[r].kind = "Ok" =>
            /\ returned[r].kind = "Ok"
            /\ returned[r].value.status = result[r].value.status
            /\ returned[r].value.headers = result[r].value.headers
            /\ returned[r].value.body = result[r].value.body

\* A 503 response went back to the caller while its log was suppressed.
C2_Witness ==
    \E r \in Slots :
        /\ pc[r] = "done"
        /\ result[r] = Ok(Response(503, "unavailable"))
        /\ returned[r].kind = "Ok"
        /\ logs[r] = <<>>

\* C3: when the handler fails, the call returns that very failure, the
\* observation is labelled "500" and any log record of the call has error
\* severity and status 500, whatever the failure value is.
C3_FailureFallback ==
    \A r \in Slots :
        HandlerDone(r) /\ result[r].kind = "Err" =>
            /\ pc[r] = "done" => returned[r] = result[r]
            /\ pc[r] # "done" => status_code[r] = 500 /\ out[r] = result[r]
            /\ Observing(r) => metrics[r][1].label = <<"5", "0", "0">>
            /\ \A i \in DOMAIN logs[r] :
                 logs[r][i].severity = "error" /\ logs[r][i].record.status = 500
            /\ \A i \in DOMAIN trace :
                 trace[i].call = call[r] =>
                     trace[i].status = 500 /\ trace[i].emitted \in {<<>>, <<"error">>}

\* A failure that carries the status 404 was returned, logged at error
\* severity and observed under "500".
C3_Witness ==
    \E r \in Slots :
        /\ pc[r] = "done"
        /\ result[r] = Err([error |-> "NotFoundError", status |-> 404])
        /\ returned[r] = result[r]
        /\ Len(logs[r]) = 1
        /\ logs[r][1].severity = "error"
        /\ metrics[r] # <<>>

\* C4: a call whose final status is below 500 emits its record at debug
\* severity, in every state of the sampler.
C4_DebugNeverSuppressed ==
    \A r \in Slots :
        Classified(r) /\ FinalStatus(result[r]) < 500 =>
            /\ Len(logs[r]) = 1
            /\ logs[r][1].severity = "debug"
            /\ logs[r][1].record.status = FinalStatus(result[r])

\* A debug record was emitted in an interval that an error emission had
\* already consumed.
C4_Witness ==
    \E i, j \in DOMAIN trace :
        /\ i < j
        /\ Passed(i)
        /\ trace[j].emitted = <<"debug">>
        /\ trace[j].at - trace[i].at < OneSecond

\* The classification step of the call in slot r.
EntryOf(r) == CHOOSE i \in DOMAIN trace : trace[i].call = call[r]

\* An error emission passed before step j, less than one second earlier.
RecentPassBefore(j) ==
    \E i \in DOMAIN trace : i < j /\ Passed(i) /\ trace[j].at - trace[i].at < OneSecond

\* Number of classification steps so far with status s.
StepsWith(s) == Cardinality({i \in DOMAIN trace : trace[i].status = s})

\* Calls that are classified with status s and have not observed yet.
Unobserved(s) == Cardinality({r \in Slots : pc[r] = "observe" /\ status_code[r] = s})

\* C5: a call with final status >= 500 whose sampler check comes less than one
\* second after an error emission that passed emits no record, then or
\* later, and still makes its observation.
C5_SuppressedWithinInterval ==
    /\ \A j \in DOMAIN trace :
         trace[j].status >= 500 /\ RecentPassBefore(j) => Suppressed(j)
    /\ \A r \in Slots :
         (Classified(r) /\ FinalStatus(result[r]) >= 500 /\ RecentPassBefore(EntryOf(r))) =>
             /\ logs[r] = <<>>
             /\ Observing(r) =>
                  metrics[r] = <<[label |-> U16ToString(FinalStatus(result[r])),
                                  value |-> metrics[r][1].value]>>

\* A 503 call finished without a record, after a failed call with another
\* request had its error record passed in the same second.
C5_Witness ==
    \E r \in Slots :
        /\ pc[r] = "done"
        /\ result[r].kind = "Ok"
        /\ result[r].value.status = 503
        /\ logs[r] = <<>>
        /\ Len(metrics[r]) = 1
        /\ \E i \in DOMAIN trace :
             /\ i < EntryOf(r)
             /\ Passed(i)
             /\ trace[i].status = 500
             /\ trace[EntryOf(r)].at - trace[i].at < OneSecond

\* A run i..j of consecutive classification steps, all with the same status
\* s >= 500, less than one second from first to last, that starts after a
\* second without a passed error.
Burst(i, j, s) ==
    /\ i <= j
    /\ s >= 500
    /\ \A k \in i..j : trace[k].status = s
    /\ trace[j].at - trace[i].at < OneSecond
    /\ ~RecentPassBefore(i)

\* C6: in a burst of N calls with the same status >= 500, exactly one
\* error record is emitted, and the histogram holds one observation
\* labelled with that status for each of the N calls.
C6_BurstOneLog ==
    /\ \A i, j \in DOMAIN trace :
         Burst(i, j, trace[i].status) =>
             /\ Cardinality({k \in i..j : Passed(k)}) = 1
             /\ \A k \in i..j : Passed(k) \/ Suppressed(k)
    /\ \A i \in DOMAIN trace :
         trace[i].status >= 500 =>
             histogram[U16ToString(trace[i].status)]
                 = StepsWith(trace[i].status) - Unobserved(trace[i].status)

\* Three calls with status 503 within one second: one error record passed,
\* three observations under "503".
C6_Witness ==
    /\ Len(trace) = 3
    /\ Burst(1, 3, 503)
    /\ trace[3].at > trace[1].at
    /\ histogram[<<"5", "0", "3">>] = 3
    /\ \A r \in Slots : pc[r] = "done"

\* C7: the first call with status >= 500 after a quiet second (no call with
\* status >= 500 was classified during the last second, or none ever was)
\* has its error record emitted.
C7_FirstErrorPasses ==
    \A j \in DOMAIN trace :
        (/\ trace[j].status >= 500
         /\ \A i \in DOMAIN trace :
              i < j /\ trace[i].status >= 500 => trace[j].at - trace[i].at >= OneSecond)
        => Passed(j)

\* An error passed, a second went by with routine traffic only, and the
\* next error passed as well.
C7_Witness ==
    \E i, j \in DOMAIN trace :
        /\ i < j
        /\ Passed(i)
        /\ Passed(j)
        /\ trace[j].at - trace[i].at >= OneSecond
        /\ \E k \in DOMAIN trace : i < k /\ k < j
        /\ \A k \in DOMAIN trace : i < k /\ k < j => trace[k].status < 500

\* Time of the last error emission that passed, NoPass when none did.
RECURSIVE LastPassed(_)
LastPassed(n) ==
    IF n = 0 THEN NoPass
    ELSE IF Passed(n) THEN trace[n].at ELSE LastPassed(n - 1)

\* C8: only a passed emission moves the last-pass timestamp, so a call with
\* status >= 500 whose check comes one second or more after the last passed
\* error emission passes, whatever was suppressed in between.
C8_OnePerIntervalSustained ==
    /\ lastPass = LastPassed(Len(trace))
    /\ \A j \in DOMAIN trace :
         (/\ trace[j].status >= 500
          /\ LastPassed(j - 1) # NoPass
          /\ trace[j].at - LastPassed(j - 1) >= OneSecond)
         => Passed(j)

\* An error passed, the next one was suppressed in the same second, and a
\* third one, a second after the first, passed.
C8_Witness ==
    /\ Len(trace) = 3
    /\ Passed(1)
    /\ trace[2].status >= 500 /\ Suppressed(2)
    /\ trace[2].at > trace[1].at
    /\ Passed(3)
    /\ trace[3].at - trace[2].at < OneSecond

\* C9: of the calls with status >= 500 that reach the sampler together,
\* exactly one wins the interval: two error records never pass less than a
\* second apart, and a suppressed call always has a passed one less than a
\* second before it.
C9_ExactlyOneWinner ==
    /\ \A i, j \in DOMAIN trace :
         i < j /\ Passed(i) /\ Passed(j) => trace[j].at - trace[i].at >= OneSecond
    /\ \A j \in DOMAIN trace :
         trace[j].status >= 500 /\ ~Passed(j) => Suppressed(j) /\ RecentPassBefore(j)

\* Two calls with status >= 500 were at the sampler at the same time; both
\* have taken the step, one record passed and the other was dropped.
C9_Witness ==
    \E r, q \in Slots :
        /\ r # q
        /\ pc[r] = "observe" /\ pc[q] = "observe"
        /\ status_code[r] >= 500 /\ status_code[q] >= 500
        /\ trace[EntryOf(r)].at = trace[EntryOf(q)].at
        /\ Len(logs[r]) = 1 /\ logs[r][1].severity = "error"
        /\ logs[q] = <<>>

\* C10: the observation of a call carries the outcome its log record
\* carries: the label is the decimal text of the record's status, which is
\* the final status, and the value is the record's elapsed time in seconds.
C10_MetricsMatchRecord ==
    \A r \in Slots : \A m \in DOMAIN metrics[r] :
        /\ ParseDecimal(metrics[r][m].label) = FinalStatus(result[r])
        /\ Len(metrics[r][m].label) = 3
        /\ pc[r] = "return" =>
             /\ log[r].status = ParseDecimal(metrics[r][m].label)
             /\ metrics[r][m].value = AsSecsF64(log[r].elapsed)
        /\ \A l \in DOMAIN logs[r] :
             /\ logs[r][l].record.status = ParseDecimal(metrics[r][m].label)
             /\ metrics[r][m].value = AsSecsF64(logs[r][l].record.elapsed)

\* A 404 call that took a tick has its debug record and its observation,
\* labelled "404", side by side.
C10_Witness ==
    \E r \in Slots :
        /\ pc[r] = "return"
        /\ Len(logs[r]) = 1
        /\ logs[r][1].record.status = 404
        /\ logs[r][1].record.elapsed > 0
        /\ metrics[r] = <<[label |-> <<"4", "0", "4">>,
                           value |-> AsSecsF64(logs[r][1].record.elapsed)]>>

\* A header value that decodes as text: visible ASCII and tabs only.
Decodable(bytes) == \A i \in DOMAIN bytes : bytes[i] \in (32..126) \cup {9}

\* The call in slot r holds a record built from its request.
HasRecord(r) == pc[r] \in {"handler", "classify", "observe", "return"}

\* C11: for each of Referer, User-Agent and Forwarded on its own, a header
\* that is missing or is not text gives an absent field and no error: the
\* endpoint is still called, method, path, peer address and the headers that
\* are text are in the record, and the call returns what the endpoint gave.
C11_HeadersNeverFail ==
    \A r \in Slots :
        /\ pc[r] = "extract" => ENABLED Extract(r)
        /\ HasRecord(r) =>
             /\ \A h \in HeaderNames :
                  IF h \in DOMAIN request[r].headers /\ Decodable(request[r].headers[h])
                  THEN log[r][h] = Some(request[r].headers[h])
                  ELSE log[r][h] = None
             /\ log[r].method = request[r].method
             /\ log[r].path = request[r].uri.path
             /\ log[r].remote_addr = request[r].remote_addr
             /\ \A i \in DOMAIN logs[r] :
                  \A h \in HeaderNames : logs[r][i].record[h] = log[r][h]
        /\ pc[r] = "done" => returned[r] = result[r]

\* A request with a Referer that is not text, a textual User-Agent and no
\* Forwarded header went through the endpoint and its record was emitted.
C11_Witness ==
    \E r \in Slots :
        /\ pc[r] = "return"
        /\ request[r].headers = [referer |-> BytesHeader, user_agent |-> TextHeader]
        /\ Len(logs[r]) = 1
        /\ logs[r][1].record.referer = None
        /\ logs[r][1].record.user_agent = Some(TextHeader)
        /\ logs[r][1].record.forwarded = None
        /\ logs[r][1].record.method = "GET"

\* C12 as stated: the log sink receives the record of every completed call
\* exactly once.
C12_Original ==
    \A r \in Slots : pc[r] = "done" => Len(logs[r]) = 1

\* C12, amended: the record of a call is handed to the log sink at most once,
\* and only at the log decision after the handler returned; a call with final
\* status below 500 has it emitted exactly once, and a call whose record was
\* not emitted has a status >= 500 and was dropped by the sampler after an
\* earlier emission had passed.
C12_AtMostOnce ==
    \A r \in Slots :
        /\ Len(logs[r]) <= 1
        /\ ~Classified(r) => logs[r] = <<>>
        /\ Classified(r) /\ FinalStatus(result[r]) < 500 => Len(logs[r]) = 1
        /\ Classified(r) /\ logs[r] = <<>> =>
             /\ FinalStatus(result[r]) >= 500
             /\ Suppressed(EntryOf(r))
             /\ \E i \in DOMAIN trace : i < EntryOf(r) /\ Passed(i)
        /\ \A i \in DOMAIN logs[r] :
             logs[r][i].record.status = FinalStatus(result[r])

\* One completed call has its error record, emitted once, and another
\* completed call with status >= 500 has none.
C12_Witness ==
    \E r, q \in Slots :
        /\ pc[r] = "done" /\ pc[q] = "done"
        /\ Len(logs[r]) = 1 /\ logs[r][1].severity = "error"
        /\ FinalStatus(result[q]) >= 500 /\ logs[q] = <<>>

\* C13: the recorded elapsed time is exactly the time of the handler
\* invocation: the start timestamp is the time at which the handler is
\* invoked, after the metadata extraction, and the stop timestamp is the time
\* at which the handler returns, so that the elapsed time written to the
\* record and observed is the time from invocation to return, with neither
\* the extraction before it nor the emission after it.
C13_Original ==
    [][\A r \in Slots :
         /\ pc'[r] = "handler" => start'[r] = invokedAt'[r]
         /\ pc[r] = "handler" /\ pc'[r] = "classify" =>
              /\ elapsed'[r] = now - invokedAt[r]
              /\ log'[r].elapsed = now - invokedAt[r]
         /\ pc[r] \in {"classify", "observe"} =>
              /\ elapsed'[r] = elapsed[r]
              /\ log'[r].elapsed = elapsed[r]
              /\ \A i \in DOMAIN logs'[r] : logs'[r][i].record.elapsed = elapsed[r]
              /\ \A i \in DOMAIN metrics'[r] : metrics'[r][i].value = AsSecsF64(elapsed[r])
      ]_vars

\* The handler of a call is being invoked one tick after the call's start
\* timestamp was taken: the metadata extraction took that tick, and it is
\* inside the interval that the call will record as elapsed.
C13_Witness ==
    \E r \in Slots :
        /\ pc[r] = "handler"
        /\ result[r] = NoValue
        /\ invokedAt[r] = now
        /\ start[r] = invokedAt[r] - 1

\* The log decision of the call in slot r has been taken.
Decided(r) == \E i \in DOMAIN trace : trace[i].call = call[r]

\* C14: within a call the steps come in the order extract, invoke, classify,
\* emit, return: nothing is logged, observed or returned while the handler
\* has not returned, the record is built before the handler is invoked, and
\* the result goes back to the caller only after the log decision and the
\* observation.
C14_LinearOrder ==
    \A r \in Slots :
        /\ pc[r] \in {"extract", "handler", "classify"} =>
             /\ logs[r] = <<>>
             /\ metrics[r] = <<>>
             /\ ~Decided(r)
        /\ pc[r] = "extract" => result[r] = NoValue
        /\ pc[r] = "handler" =>
             /\ log[r] = HttpRequestLog(request[r])
             /\ result[r] \in {NoValue, NeverReturns}
        /\ pc[r] \in {"classify", "observe", "return"} => result[r] \in workload.results
        /\ pc[r] = "observe" => Decided(r) /\ metrics[r] = <<>>
        /\ pc[r] = "return" => Decided(r) /\ Len(metrics[r]) = 1
        /\ pc[r] # "done" => returned[r] = NoValue
        /\ returned[r] # NoValue =>
             /\ result[r] \in workload.results
             /\ Decided(r)
             /\ Len(metrics[r]) = 1

\* A failed call has returned its failure, with its record emitted and its
\* observation made, while another call is still inside its handler.
C14_Witness ==
    \E r, q \in Slots :
        /\ pc[r] = "done"
        /\ returned[r].kind = "Err"
        /\ Len(logs[r]) = 1
        /\ Len(metrics[r]) = 1
        /\ pc[q] = "handler"
        /\ call[q] < call[r]

\* The step of slot r in which its handler's result comes back.
Completes(r) == pc[r] = "handler" /\ pc'[r] = "classify"

\* C15: status and elapsed of the record are written once per call, in the
\* step in which the handler's result comes back: there the placeholders 0
\* and zero are replaced by the final status and the measured time, every
\* other step of the call leaves the record alone, and a record that is
\* emitted is that record, with a status other than 0.
C15_WriteOnce ==
    [][\A r \in Slots :
         /\ Completes(r) =>
              /\ log[r].status = UnsetStatus
              /\ log[r].elapsed = ZeroElapsed
              /\ log'[r].status = FinalStatus(result'[r])
              /\ log'[r].status # UnsetStatus
              /\ log'[r].elapsed = now - start[r]
              /\ [log'[r] EXCEPT !.status = UnsetStatus, !.elapsed = ZeroElapsed] = log[r]
         /\ (HasRecord(r) /\ pc'[r] \in {"handler", "classify", "observe", "return"}
               /\ ~Completes(r)) => log'[r] = log[r]
         /\ logs'[r] # logs[r] /\ logs'[r] # <<>> =>
              /\ pc[r] = "classify"
              /\ \A i \in DOMAIN logs'[r] :
                   /\ logs'[r][i].record = log[r]
                   /\ logs'[r][i].record.status = FinalStatus(result[r])
                   /\ logs'[r][i].record.status # UnsetStatus
                   /\ logs'[r][i].record.elapsed = elapsed[r]
    ]_vars

\* A record has been emitted with status 503 and a measured time above zero.
C15_Witness ==
    \E r \in Slots :
        /\ Len(logs[r]) = 1
        /\ logs[r][1].record.status = 503
        /\ logs[r][1].record.elapsed > ZeroElapsed

\* The call in slot r is inside a handler that never returns.
Suspended(r) == result[r] = NeverReturns

\* The call in slot r has got no further than the invocation of its handler.
AtInvocation(r) ==
    /\ pc[r] = "handler"
    /\ logs[r] = <<>>
    /\ metrics[r] = <<>>
    /\ returned[r] = NoValue
    /\ ~Decided(r)

\* C16: a call whose handler never returns stays at the invocation for ever:
\* it emits no record, makes no observation, returns nothing to its caller,
\* and no step that changes the sampler's state is a step of that call.
C16_NeverPastInvocation ==
    /\ [](\A r \in Slots : Suspended(r) => AtInvocation(r))
    /\ [][\A r \in Slots : Suspended(r) =>
            /\ Suspended(r)'
            /\ AtInvocation(r)'
            /\ call'[r] = call[r]
            /\ lastPass' # lastPass =>
                 \E q \in Slots \ {r} : pc[q] = "classify" /\ pc'[q] = "observe"
       ]_vars

\* A call has been suspended in its handler for a second or more, while a
\* later call has passed an error record and returned.
C16_Witness ==
    \E r, q \in Slots :
        /\ Suspended(r)
        /\ now - invokedAt[r] >= OneSecond
        /\ pc[q] = "done"
        /\ call[q] > call[r]
        /\ \E i \in DOMAIN trace : trace[i].call = call[q] /\ Passed(i)

\* The step in which the call in slot r takes its log decision.
Decides(r) == pc[r] = "classify" /\ pc'[r] = "observe"

\* A routine step came before step j, less than one second earlier.
RoutineJustBefore(j) ==
    \E i \in DOMAIN trace :
        i < j /\ trace[i].status < 500 /\ trace[j].at - trace[i].at < OneSecond

\* C17: the log decision of a call with final status below 500 leaves the
\* sampler's last-pass time as it was, so routine calls ahead of an error
\* call do not change its outcome: the error passes exactly when no error
\* record passed in the second before it.
C17_RoutineBypassesSampler ==
    /\ [][\A r \in Slots :
            Decides(r) /\ FinalStatus(result[r]) < 500 => lastPass' = lastPass]_vars
    /\ [](\A j \in DOMAIN trace :
            trace[j].status >= 500 /\ RoutineJustBefore(j) =>
                (Passed(j) <=> ~RecentPassBefore(j)))

\* An error record passed, a routine call logged inside the next second, and
\* an error record passed again one second after the first, less than a
\* second after the routine call.
C17_Witness ==
    \E k, i, j \in DOMAIN trace :
        /\ k < i /\ i < j
        /\ Passed(k)
        /\ trace[i].emitted = <<"debug">>
        /\ trace[i].at > trace[k].at
        /\ trace[j].at - trace[i].at < OneSecond
        /\ trace[j].at - trace[k].at >= OneSecond
        /\ Passed(j)

\* Another call than the one in slot r is inside its handler.
OtherInHandler(r) == \E q \in Slots \ {r} : pc[q] = "handler"

\* C18: a call inside its handler blocks no other call: while it is there,
\* every other call can take its next step, be it extraction, the return of
\* its own handler, the log decision with the sampler, the observation or
\* the return to its caller.
C18_NoBlockingAcrossHandler ==
    \A r \in Slots :
        OtherInHandler(r) =>
            /\ pc[r] = "extract" => ENABLED Extract(r)
            /\ pc[r] = "handler" /\ result[r] = NoValue => ENABLED HandlerReturns(r)
            /\ pc[r] = "classify" => ENABLED Classify(r)
            /\ pc[r] = "observe" => ENABLED Observe(r)
            /\ pc[r] = "return" => ENABLED Return(r)

\* A call entered after another call went into a handler that never returns,
\* had an error record passed by the sampler, made its observation and
\* returned, the first call being still in its handler.
C18_Witness ==
    \E r, q \in Slots :
        /\ pc[q] = "handler"
        /\ result[q] = NeverReturns
        /\ call[r] > call[q]
        /\ pc[r] = "done"
        /\ Len(logs[r]) = 1
        /\ logs[r][1].severity = "error"
        /\ Len(metrics[r]) = 1
        /\ returned[r] = result[r]

\* C19: the severity of a record follows from the test status >= 500 and
\* from nothing else: an error record belongs to a call with final status of
\* 500 or more, a debug record to a call with final status of 499 or less, and
\* no call has a record at each severity.
C19_SeverityByThreshold ==
    /\ \A r \in Slots :
         /\ Len(logs[r]) <= 1
         /\ \A i \in DOMAIN logs[r] :
              /\ logs[r][i].severity = "error" =>
                   FinalStatus(result[r]) >= 500 /\ logs[r][i].record.status >= 500
              /\ logs[r][i].severity = "debug" =>
                   FinalStatus(result[r]) <= 499 /\ logs[r][i].record.status <= 499
    /\ \A j \in DOMAIN trace :
         /\ trace[j].emitted \in {<<>>, <<"error">>, <<"debug">>}
         /\ Passed(j) => trace[j].status >= 500
         /\ trace[j].emitted = <<"debug">> <=> trace[j].status <= 499

\* A call with status 499 was logged at debug severity and a call with status
\* 500 at error severity.
C19_Witness ==
    \E i, j \in DOMAIN trace :
        /\ trace[i].status = 499
        /\ trace[i].emitted = <<"debug">>
        /\ trace[j].status = 500
        /\ Passed(j)

====
